---- MODULE Spec2Model ----
(***************************************************************************)
(* Model of src/PROLB3.py: a task queue (TaskManager) kept in memory over  *)
(* a durable table of tasks (DBManager, SQLite).                           *)
(*                                                                         *)
(* The table is a set of rows; it survives the process.  Everything else   *)
(* (the deque, the locals of a call in flight, what the last call          *)
(* returned) lives in the process and is lost when the process stops.      *)
(*                                                                         *)
(* Every DBManager method catches sqlite3.Error, prints and returns a      *)
(* neutral value (None, False, []).  Whether a statement raises is an      *)
(* input of the action that executes it (the ok... parameters); a          *)
(* statement that raises changes no row.                                   *)
(*                                                                         *)
(* process_next_task is split where the code sleeps (line 186): the rows   *)
(* written before the sleep are committed and visible while it sleeps, and *)
(* the process may be stopped there.                                       *)
(***************************************************************************)
EXTENDS Naturals, Sequences, FiniteSets

(* Bounds of the model: the number of rows ever inserted, the number of     *)
(* close() calls on one DBManager, and the number of times the process is   *)
(* stopped where stops are counted.                                         *)
MaxTasks == 3
MaxCloses == 2
MaxStops == 2

(* The status strings of the source, under the names the specification uses. *)
Pending == "Pending"          \* 'Очікує'
InProgress == "InProgress"    \* 'В процесі'
Done == "Done"                \* 'Виконано'
Failed == "Failed"            \* 'Помилка'

(* Inputs of add_task and the values CURRENT_TIMESTAMP may take. *)
Users == {"UserA", "UserB"}
Descriptions == {"report", "email"}
Timestamps == {"t1"}

VARIABLES
  db,          \* the rows of table tasks (durable)
  task_queue,  \* TaskManager.task_queue, a deque of task ids
  pc,          \* "down": no TaskManager; "idle": between calls;
               \* "working": inside process_next_task, at time.sleep(1)
  task_id,     \* process_next_task's local task_id (0: none yet)
  ret,         \* what the last completed call returned: "None", "True",
               \* "False", or "Error" when it raised
  msg,         \* the kind of the last message printed by a call
  errs,        \* Store statements that raised during the current/last call
  writes,      \* INSERT/UPDATE statements issued by the current/last call
  enqueued,    \* history: ids appended to task_queue since construction
  dequeued,    \* history: ids popped from task_queue since construction
  conn,        \* DBManager.conn: "none" (no DBManager), "open" or "closed"
  close_msgs,  \* messages printed by close() on this DBManager so far
  report,      \* the locals of the last call, when it was generate_report
  stops,       \* environment: how often the process has been stopped
  driver       \* environment: where the __main__ script stands

vars == <<db, task_queue, pc, task_id, ret, msg, errs, writes, enqueued, dequeued,
          conn, close_msgs, report, stops, driver>>

----------------------------------------------------------------------------
(* DBManager *)

Ids(rows) == {r.id : r \in rows}

MaxId(rows) == IF rows = {} THEN 0 ELSE CHOOSE m \in Ids(rows) : \A i \in Ids(rows) : i <= m

(* id INTEGER PRIMARY KEY AUTOINCREMENT: one more than the largest id ever  *)
(* used; rows are never deleted, so that is the largest id in the table.    *)
lastrowid(rows) == MaxId(rows) + 1

(* ORDER BY id *)
RECURSIVE OrderById(_)
OrderById(rows) ==
  IF rows = {} THEN <<>>
  ELSE LET first == CHOOSE r \in rows : \A q \in rows : r.id <= q.id
       IN <<first>> \o OrderById(rows \ {first})

(* Variant of add_task: the row of a statement that raised stays in the     *)
(* table (the INSERT ran, the commit raised).                               *)
DBManager_add_task_row_kept(rows, user_id, description, status, now, ok) ==
  [rows |-> rows \cup {[id |-> lastrowid(rows), user |-> user_id,
                        description |-> description, status |-> status,
                        timestamp |-> now]},
   task_id |-> IF ok THEN lastrowid(rows) ELSE 0]

(* Variant of add_task: the INSERT binds user and description the wrong way *)
(* round.                                                                   *)
DBManager_add_task_swapped(rows, user_id, description, status, now, ok) ==
  IF ok
  THEN [rows |-> rows \cup {[id |-> lastrowid(rows), user |-> description,
                             description |-> user_id, status |-> status,
                             timestamp |-> now]},
        task_id |-> lastrowid(rows)]
  ELSE [rows |-> rows, task_id |-> 0]

(* Variant of add_task: the id returned is not the id of the row inserted. *)
DBManager_add_task_wrong_id(rows, user_id, description, status, now, ok) ==
  IF ok
  THEN [rows |-> rows \cup {[id |-> lastrowid(rows), user |-> user_id,
                             description |-> description, status |-> status,
                             timestamp |-> now]},
        task_id |-> lastrowid(rows) + 1]
  ELSE [rows |-> rows, task_id |-> 0]

(* DBManager.add_task: the rows after the INSERT and the value returned     *)
(* (the new id, or 0 for None when the statement raised).                   *)
DBManager_add_task(rows, user_id, description, status, now, ok) ==
  IF ok
  THEN [rows |-> rows \cup {[id |-> lastrowid(rows), user |-> user_id,
                             description |-> description, status |-> status,
                             timestamp |-> now]},
        task_id |-> lastrowid(rows)]
  ELSE [rows |-> rows, task_id |-> 0]

(* Variant of update_task_status: the UPDATE has no WHERE clause. *)
DBManager_update_task_status_no_where(rows, id, new_status, ok) ==
  IF ok
  THEN [rows |-> {[r EXCEPT !.status = new_status] : r \in rows},
        changed |-> rows # {}]
  ELSE [rows |-> rows, changed |-> FALSE]

(* DBManager.update_task_status: UPDATE tasks SET status = ? WHERE id = ?;  *)
(* returns rowcount > 0, or False when the statement raised.                *)
DBManager_update_task_status(rows, id, new_status, ok) ==
  IF ok
  THEN [rows |-> {IF r.id = id THEN [r EXCEPT !.status = new_status] ELSE r : r \in rows},
        changed |-> (\E r \in rows : r.id = id)]
  ELSE [rows |-> rows, changed |-> FALSE]

(* DBManager.get_all_tasks: every row, ascending by id; [] when it raised. *)
DBManager_get_all_tasks(rows, ok) ==
  IF ok THEN OrderById(rows) ELSE <<>>

(* DBManager.close: the connection after the call and the number of        *)
(* messages it prints.  self.conn is never reset, so the test of line 133   *)
(* passes for every DBManager that connected; closing a closed sqlite3      *)
(* connection does nothing and raises nothing.                              *)
DBManager_close(c) ==
  IF c # "none" THEN [conn |-> "closed", printed |-> 1]
  ELSE [conn |-> c, printed |-> 0]

(* DBManager.get_task_by_id: fetchone() as a sequence of at most one row;   *)
(* the empty sequence is None (no such row, or the statement raised).       *)
DBManager_get_task_by_id(rows, id, ok) ==
  IF ok /\ (\E r \in rows : r.id = id)
  THEN <<CHOOSE r \in rows : r.id = id>>
  ELSE <<>>

----------------------------------------------------------------------------
(* TaskManager *)

(* The locals of generate_report before its loop (lines 232-235), with     *)
(* len(all_tasks) of line 250; also what a call other than generate_report  *)
(* leaves of them.                                                          *)
NoReport ==
  [total |-> 0, processed_count |-> 0, unprocessed_count |-> 0,
   processed_list |-> <<>>, unprocessed_list |-> <<>>]

(* Variants of the test of line 156: no test, and 'Очікує' only. *)
IsQueued_any(status) == TRUE

IsQueued_pending_only(status) == status = Pending

(* The test of line 156. *)
IsQueued(status) == status = Pending \/ status = InProgress

(* The loop of _load_pending_tasks_to_queue over get_all_tasks(). *)
RECURSIVE LoadPending(_)
LoadPending(all_db_tasks) ==
  IF all_db_tasks = <<>> THEN <<>>
  ELSE (IF IsQueued(Head(all_db_tasks).status) THEN <<Head(all_db_tasks).id>> ELSE <<>>)
       \o LoadPending(Tail(all_db_tasks))

(* Variant of popleft: the head is read (task_queue[0]) and stays queued. *)
peek(queue) == [item |-> Head(queue), rest |-> queue]

(* Variant of popleft: deque.pop(), which removes the newest item. *)
pop(queue) == [item |-> queue[Len(queue)], rest |-> SubSeq(queue, 1, Len(queue) - 1)]

(* deque.popleft(): the item removed and the deque left. *)
popleft(queue) == [item |-> Head(queue), rest |-> Tail(queue)]

(* Variant of line 200: process_next_task ends without a return value. *)
ReturnProcessed_none == "None"

(* Variant of line 197: the missing task is reported as processed. *)
ReturnNotFound_true == "True"

(* The values process_next_task returns. *)
ReturnEmpty == "False"       \* line 177
ReturnNotFound == "False"    \* line 197
ReturnProcessed == "True"    \* line 200

Init ==
  /\ db = {}
  /\ task_queue = <<>>
  /\ pc = "down"
  /\ task_id = 0
  /\ ret = "None"
  /\ msg = "none"
  /\ errs = {}
  /\ writes = 0
  /\ enqueued = <<>>
  /\ dequeued = <<>>
  /\ conn = "none"
  /\ close_msgs = 0
  /\ report = NoReport
  /\ stops = 0
  /\ driver = [phase |-> "none", n |-> 0]

(* TaskManager.__init__: DBManager(db_name) connects and creates the table  *)
(* (both re-raise), then the queue is rebuilt from the table.               *)
TaskManager_init(okConnect, okList) ==
  /\ pc = "down"
  /\ IF okConnect
     THEN /\ task_queue' = LoadPending(DBManager_get_all_tasks(db, okList))
          /\ enqueued' = task_queue'
          /\ pc' = "idle"
          /\ ret' = "None"
          /\ msg' = "loaded"
          /\ errs' = IF okList THEN {} ELSE {"list"}
     ELSE /\ task_queue' = <<>>
          /\ enqueued' = <<>>
          /\ pc' = "down"
          /\ ret' = "Error"
          /\ msg' = "connect_error"
          /\ errs' = {"connect"}
  /\ dequeued' = <<>>
  /\ task_id' = 0
  /\ writes' = 0
  /\ conn' = IF okConnect THEN "open" ELSE "none"
  /\ close_msgs' = 0
  /\ report' = NoReport
  /\ UNCHANGED db

(* TaskManager.add_task *)
TaskManager_add_task(user_id, task_description, now, ok) ==
  /\ pc = "idle"
  /\ LET r == DBManager_add_task(db, user_id, task_description, Pending, now, ok)
     IN /\ db' = r.rows
        /\ IF r.task_id # 0
           THEN /\ task_queue' = Append(task_queue, r.task_id)
                /\ enqueued' = Append(enqueued, r.task_id)
                /\ msg' = "added"
           ELSE /\ UNCHANGED <<task_queue, enqueued>>
                /\ msg' = "insert_error"
  /\ ret' = "None"
  /\ errs' = IF ok THEN {} ELSE {"insert"}
  /\ writes' = 1
  /\ report' = NoReport
  /\ UNCHANGED <<pc, task_id, dequeued, conn, close_msgs>>

(* Variant of lines 175-177: no test of the queue, so popleft() raises      *)
(* IndexError on the empty deque.                                           *)
process_next_task_empty_unchecked ==
  /\ pc = "idle"
  /\ task_queue = <<>>
  /\ ret' = "Error"
  /\ msg' = "none"
  /\ errs' = {}
  /\ writes' = 0
  /\ report' = NoReport
  /\ UNCHANGED <<db, task_queue, pc, task_id, enqueued, dequeued, conn, close_msgs>>

(* process_next_task, lines 175-177: the queue is empty. *)
process_next_task_empty ==
  /\ pc = "idle"
  /\ task_queue = <<>>
  /\ ret' = ReturnEmpty
  /\ msg' = "empty"
  /\ errs' = {}
  /\ writes' = 0
  /\ report' = NoReport
  /\ UNCHANGED <<db, task_queue, pc, task_id, enqueued, dequeued, conn, close_msgs>>

(* process_next_task, lines 179-186 and 195-197: pop the head, look it up,  *)
(* and either mark it 'В процесі' and start the simulated work, or return   *)
(* False when the lookup gave None.                                         *)
process_next_task_begin(okGet, okMark) ==
  /\ pc = "idle"
  /\ task_queue # <<>>
  /\ task_id' = popleft(task_queue).item
  /\ task_queue' = popleft(task_queue).rest
  /\ dequeued' = Append(dequeued, task_id')
  /\ LET task_info == DBManager_get_task_by_id(db, task_id', okGet)
     IN IF task_info # <<>>
        THEN /\ db' = DBManager_update_task_status(db, task_id', InProgress, okMark).rows
             /\ pc' = "working"
             /\ errs' = IF okMark THEN {} ELSE {"mark"}
             /\ writes' = 1
             /\ UNCHANGED <<ret, msg>>
        ELSE /\ UNCHANGED <<db, pc>>
             /\ ret' = ReturnNotFound
             /\ msg' = "not_found"
             /\ errs' = IF okGet THEN {} ELSE {"get"}
             /\ writes' = 0
  /\ report' = NoReport
  /\ UNCHANGED <<enqueued, conn, close_msgs>>

(* process_next_task, lines 188-200: draw the outcome, record it, return.   *)
process_next_task_finish(success, okResolve) ==
  /\ pc = "working"
  /\ LET new_status == IF success THEN Done ELSE Failed
     IN db' = DBManager_update_task_status(db, task_id, new_status, okResolve).rows
  /\ pc' = "idle"
  /\ ret' = ReturnProcessed
  /\ msg' = "processed"
  /\ errs' = IF okResolve THEN errs ELSE errs \cup {"resolve"}
  /\ writes' = writes + 1
  /\ report' = NoReport
  /\ UNCHANGED <<task_queue, task_id, enqueued, dequeued, conn, close_msgs>>

(* Variant of display_queue_status: it prints the ids by popping them. *)
display_queue_status_draining ==
  /\ pc = "idle"
  /\ task_queue' = <<>>
  /\ ret' = "None"
  /\ msg' = "queue_status"
  /\ errs' = {}
  /\ writes' = 0
  /\ report' = NoReport
  /\ UNCHANGED <<db, pc, task_id, enqueued, dequeued, conn, close_msgs>>

(* TaskManager.display_queue_status: prints the queue. *)
display_queue_status ==
  /\ pc = "idle"
  /\ ret' = "None"
  /\ msg' = "queue_status"
  /\ errs' = {}
  /\ writes' = 0
  /\ report' = NoReport
  /\ UNCHANGED <<db, task_queue, pc, task_id, enqueued, dequeued, conn, close_msgs>>

(* TaskManager.display_all_tasks_status: prints the table, or that it is    *)
(* empty (also when get_all_tasks raised and gave []).                      *)
display_all_tasks_status(okList) ==
  /\ pc = "idle"
  /\ ret' = "None"
  /\ msg' = IF DBManager_get_all_tasks(db, okList) = <<>> THEN "no_tasks" ELSE "all_tasks"
  /\ errs' = IF okList THEN {} ELSE {"list"}
  /\ writes' = 0
  /\ report' = NoReport
  /\ UNCHANGED <<db, task_queue, pc, task_id, enqueued, dequeued, conn, close_msgs>>

(* Variant of the loop of generate_report without its last branch (lines    *)
(* 245-247): waiting and running tasks are not counted.                     *)
RECURSIVE ReportLoop_finished_only(_, _)
ReportLoop_finished_only(all_tasks, acc) ==
  IF all_tasks = <<>> THEN acc
  ELSE LET task == Head(all_tasks)
       IN ReportLoop_finished_only(Tail(all_tasks),
            IF task.status = Done
            THEN [acc EXCEPT !.processed_count = @ + 1,
                             !.processed_list = Append(@, task)]
            ELSE IF task.status = Failed
            THEN [acc EXCEPT !.unprocessed_count = @ + 1,
                             !.unprocessed_list = Append(@, task)]
            ELSE acc)

(* The loop of generate_report, lines 237-247. *)
RECURSIVE ReportLoop(_, _)
ReportLoop(all_tasks, acc) ==
  IF all_tasks = <<>> THEN acc
  ELSE LET task == Head(all_tasks)
       IN ReportLoop(Tail(all_tasks),
            IF task.status = Done
            THEN [acc EXCEPT !.processed_count = @ + 1,
                             !.processed_list = Append(@, task)]
            ELSE IF task.status = Failed
            THEN [acc EXCEPT !.unprocessed_count = @ + 1,
                             !.unprocessed_list = Append(@, task)]
            ELSE IF task.status = Pending \/ task.status = InProgress
            THEN [acc EXCEPT !.unprocessed_count = @ + 1,
                             !.unprocessed_list = Append(@, task)]
            ELSE acc)

(* TaskManager.generate_report: its locals when it returns. *)
generate_report(okList) ==
  /\ pc = "idle"
  /\ LET all_tasks == DBManager_get_all_tasks(db, okList)
     IN report' = [ReportLoop(all_tasks, NoReport) EXCEPT !.total = Len(all_tasks)]
  /\ ret' = "None"
  /\ msg' = "report"
  /\ errs' = IF okList THEN {} ELSE {"list"}
  /\ writes' = 0
  /\ UNCHANGED <<db, task_queue, pc, task_id, enqueued, dequeued, conn, close_msgs>>

(* The memory of a process that has ended. *)
ProcessGone ==
  /\ task_queue' = <<>>
  /\ task_id' = 0
  /\ ret' = "None"
  /\ errs' = {}
  /\ writes' = 0
  /\ enqueued' = <<>>
  /\ dequeued' = <<>>
  /\ report' = NoReport
  /\ UNCHANGED db

(* TaskManager.__del__ at the end of the program: the connection is closed. *)
Shutdown ==
  /\ pc = "idle"
  /\ pc' = "down"
  /\ msg' = "closed"
  /\ conn' = DBManager_close(conn).conn
  /\ close_msgs' = close_msgs + DBManager_close(conn).printed
  /\ ProcessGone

(* The process is stopped inside process_next_task, during the sleep. *)
Crash ==
  /\ pc = "working"
  /\ pc' = "down"
  /\ msg' = "none"
  /\ conn' = "none"
  /\ close_msgs' = 0
  /\ ProcessGone

(* The environment variables stay as they are in a step of the program. *)
SameEnvironment == UNCHANGED <<stops, driver>>

Next ==
  \/ \E okConnect \in BOOLEAN, okList \in BOOLEAN :
       TaskManager_init(okConnect, okList) /\ SameEnvironment
  \/ \E u \in Users, d \in Descriptions, now \in Timestamps, ok \in BOOLEAN :
       Cardinality(db) < MaxTasks /\ TaskManager_add_task(u, d, now, ok) /\ SameEnvironment
  \/ process_next_task_empty /\ SameEnvironment
  \/ \E okGet \in BOOLEAN, okMark \in BOOLEAN :
       process_next_task_begin(okGet, okMark) /\ SameEnvironment
  \/ \E success \in BOOLEAN, okResolve \in BOOLEAN :
       process_next_task_finish(success, okResolve) /\ SameEnvironment
  \/ Shutdown /\ SameEnvironment
  \/ Crash /\ SameEnvironment

Spec == Init /\ [][Next]_vars

(* The program with its read-only calls as well, for one user and one       *)
(* description.                                                             *)
NextViews ==
  \/ \E okConnect \in BOOLEAN, okList \in BOOLEAN :
       TaskManager_init(okConnect, okList) /\ SameEnvironment
  \/ \E now \in Timestamps, ok \in BOOLEAN :
       Cardinality(db) < MaxTasks /\ TaskManager_add_task("UserA", "report", now, ok)
       /\ SameEnvironment
  \/ process_next_task_empty /\ SameEnvironment
  \/ \E okGet \in BOOLEAN, okMark \in BOOLEAN :
       process_next_task_begin(okGet, okMark) /\ SameEnvironment
  \/ \E success \in BOOLEAN, okResolve \in BOOLEAN :
       process_next_task_finish(success, okResolve) /\ SameEnvironment
  \/ display_queue_status /\ SameEnvironment
  \/ \E okList \in BOOLEAN : display_all_tasks_status(okList) /\ SameEnvironment
  \/ \E okList \in BOOLEAN : generate_report(okList) /\ SameEnvironment
  \/ Shutdown /\ SameEnvironment
  \/ Crash /\ SameEnvironment

SpecViews == Init /\ [][NextViews]_vars

----------------------------------------------------------------------------
(* A DBManager used on its own: its methods called one by one by a caller.  *)
(* A statement on a closed connection raises sqlite3.ProgrammingError, a    *)
(* sqlite3.Error, which the methods catch like any other.                   *)

StoreFrame == UNCHANGED <<task_queue, pc, task_id, enqueued, dequeued, report, stops, driver>>

(* DBManager.__init__, one DBManager at a time: _connect and _create_table  *)
(* re-raise.                                                                *)
Store_init(okConnect) ==
  /\ pc = "down"
  /\ conn # "open"
  /\ conn' = IF okConnect THEN "open" ELSE "none"
  /\ close_msgs' = 0
  /\ ret' = IF okConnect THEN "None" ELSE "Error"
  /\ msg' = IF okConnect THEN "connected" ELSE "connect_error"
  /\ errs' = IF okConnect THEN {} ELSE {"connect"}
  /\ writes' = 0
  /\ UNCHANGED db
  /\ StoreFrame

(* A call of DBManager.add_task. *)
Store_add_task(user_id, description, now, okStatement) ==
  /\ pc = "down"
  /\ conn # "none"
  /\ LET ok == conn = "open" /\ okStatement
         r == DBManager_add_task(db, user_id, description, Pending, now, ok)
     IN /\ db' = r.rows
        /\ ret' = IF r.task_id = 0 THEN "None" ELSE "Id"
        /\ errs' = IF ok THEN {} ELSE {"insert"}
  /\ msg' = "none"
  /\ writes' = 1
  /\ UNCHANGED <<conn, close_msgs>>
  /\ StoreFrame

(* A call of DBManager.update_task_status. *)
Store_update_task_status(id, new_status, okStatement) ==
  /\ pc = "down"
  /\ conn # "none"
  /\ LET ok == conn = "open" /\ okStatement
         r == DBManager_update_task_status(db, id, new_status, ok)
     IN /\ db' = r.rows
        /\ ret' = IF r.changed THEN "True" ELSE "False"
        /\ errs' = IF ok THEN {} ELSE {"update"}
  /\ msg' = "none"
  /\ writes' = 1
  /\ UNCHANGED <<conn, close_msgs>>
  /\ StoreFrame

(* A call of DBManager.close. *)
Store_close ==
  /\ pc = "down"
  /\ conn # "none"
  /\ conn' = DBManager_close(conn).conn
  /\ close_msgs' = close_msgs + DBManager_close(conn).printed
  /\ ret' = "None"
  /\ msg' = IF DBManager_close(conn).printed > 0 THEN "closed" ELSE msg
  /\ errs' = {}
  /\ writes' = 0
  /\ UNCHANGED db
  /\ StoreFrame

NextStore ==
  \/ \E okConnect \in BOOLEAN : Store_init(okConnect)
  \/ \E u \in Users, now \in Timestamps, ok \in BOOLEAN :
       Cardinality(db) < MaxTasks /\ Store_add_task(u, "report", now, ok)
  \/ \E id \in 1..(MaxTasks + 1), s \in {Pending, InProgress, Done, Failed}, ok \in BOOLEAN :
       Store_update_task_status(id, s, ok)
  \/ close_msgs < MaxCloses /\ Store_close

SpecStore == Init /\ [][NextStore]_vars

----------------------------------------------------------------------------
(* The __main__ script, lines 277-306, on a Store whose statements succeed. *)

(* The add_task calls of lines 281-285 and of lines 294-295. *)
DemoFirstBatch ==
  << [user |-> "UserA", description |-> "send report by 17:00"],
     [user |-> "UserB", description |-> "create new project"],
     [user |-> "UserC", description |-> "answer email"],
     [user |-> "UserA", description |-> "book meeting room"],
     [user |-> "UserB", description |-> "prepare presentation"] >>

DemoSecondBatch ==
  << [user |-> "UserD", description |-> "check database"],
     [user |-> "UserC", description |-> "update software"] >>

(* range(4), line 289 *)
DemoProcessCalls == 4

(* `if not manager.process_next_task(): break` on the value returned. *)
Falsy(value) == value # "True"

(* Line 279 *)
DemoConstruct ==
  /\ driver.phase = "none"
  /\ TaskManager_init(TRUE, TRUE)
  /\ driver' = [phase |-> "add_first", n |-> 0]

(* Lines 281-285 *)
DemoAddFirst ==
  /\ driver.phase = "add_first"
  /\ \E now \in Timestamps :
       TaskManager_add_task(DemoFirstBatch[driver.n + 1].user,
                            DemoFirstBatch[driver.n + 1].description, now, TRUE)
  /\ driver' = IF driver.n + 1 = Len(DemoFirstBatch)
               THEN [phase |-> "process", n |-> 0]
               ELSE [driver EXCEPT !.n = @ + 1]

(* Lines 289-292: a call of process_next_task in the for loop, up to its    *)
(* sleep or to its return of False, which breaks the loop.                  *)
DemoLoopCall ==
  /\ driver.phase = "process"
  /\ process_next_task_empty \/ process_next_task_begin(TRUE, TRUE)
  /\ driver' = IF pc' = "idle" /\ Falsy(ret')
               THEN [phase |-> "add_second", n |-> 0]
               ELSE driver

(* Lines 289-292: the call returns; the loop ends after range(4), or on a   *)
(* falsy return.                                                            *)
DemoLoopReturn ==
  /\ driver.phase = "process"
  /\ \E success \in BOOLEAN : process_next_task_finish(success, TRUE)
  /\ driver' = IF Falsy(ret') \/ driver.n + 1 = DemoProcessCalls
               THEN [phase |-> "add_second", n |-> 0]
               ELSE [driver EXCEPT !.n = @ + 1]

(* Lines 294-295 *)
DemoAddSecond ==
  /\ driver.phase = "add_second"
  /\ \E now \in Timestamps :
       TaskManager_add_task(DemoSecondBatch[driver.n + 1].user,
                            DemoSecondBatch[driver.n + 1].description, now, TRUE)
  /\ driver' = IF driver.n + 1 = Len(DemoSecondBatch)
               THEN [phase |-> "drain", n |-> 0]
               ELSE [driver EXCEPT !.n = @ + 1]

(* Lines 297-300: `while manager.task_queue` with a call in its body. *)
DemoDrainCall ==
  /\ driver.phase = "drain"
  /\ task_queue # <<>>
  /\ process_next_task_begin(TRUE, TRUE)
  /\ driver' = IF pc' = "idle" /\ Falsy(ret')
               THEN [phase |-> "show", n |-> 0]
               ELSE driver

DemoDrainReturn ==
  /\ driver.phase = "drain"
  /\ \E success \in BOOLEAN : process_next_task_finish(success, TRUE)
  /\ driver' = IF Falsy(ret') THEN [phase |-> "show", n |-> 0] ELSE driver

(* Line 297: the queue is empty, the while loop ends. *)
DemoDrainEnd ==
  /\ driver.phase = "drain"
  /\ pc = "idle"
  /\ task_queue = <<>>
  /\ driver' = [phase |-> "show", n |-> 0]
  /\ UNCHANGED <<db, task_queue, pc, task_id, ret, msg, errs, writes, enqueued,
                 dequeued, conn, close_msgs, report>>

(* Line 304 *)
DemoShow ==
  /\ driver.phase = "show"
  /\ display_all_tasks_status(TRUE)
  /\ driver' = [phase |-> "report", n |-> 0]

(* Line 306 *)
DemoReport ==
  /\ driver.phase = "report"
  /\ generate_report(TRUE)
  /\ driver' = [phase |-> "done", n |-> 0]

(* The end of the script: the TaskManager is finalized. *)
DemoExit ==
  /\ driver.phase = "done"
  /\ Shutdown
  /\ driver' = [phase |-> "exited", n |-> 0]

NextDemo ==
  \/ DemoConstruct /\ UNCHANGED stops
  \/ DemoAddFirst /\ UNCHANGED stops
  \/ DemoLoopCall /\ UNCHANGED stops
  \/ DemoLoopReturn /\ UNCHANGED stops
  \/ DemoAddSecond /\ UNCHANGED stops
  \/ DemoDrainCall /\ UNCHANGED stops
  \/ DemoDrainReturn /\ UNCHANGED stops
  \/ DemoDrainEnd /\ UNCHANGED stops
  \/ DemoShow /\ UNCHANGED stops
  \/ DemoReport /\ UNCHANGED stops
  \/ DemoExit /\ UNCHANGED stops

(* The script is sequential code: it runs on until it ends. *)
SpecDemo == Init /\ [][NextDemo]_vars /\ WF_vars(NextDemo)

----------------------------------------------------------------------------
(* The program under finitely many stops: a new TaskManager is constructed  *)
(* on the same table after each stop, and process_next_task is called again *)
(* and again.                                                               *)

(* The process is stopped between two calls, or inside process_next_task    *)
(* after popleft (line 179) and before the first UPDATE (line 183): the     *)
(* table is as the last completed call left it.                             *)
CrashIdle ==
  /\ pc = "idle"
  /\ pc' = "down"
  /\ msg' = "none"
  /\ conn' = "none"
  /\ close_msgs' = 0
  /\ ProcessGone

(* The process is stopped inside add_task, after the INSERT is committed    *)
(* (line 59) and before the id is appended to the queue (line 165).         *)
CrashInAddTask(user_id, task_description, now) ==
  /\ pc = "idle"
  /\ db' = DBManager_add_task(db, user_id, task_description, Pending, now, TRUE).rows
  /\ pc' = "down"
  /\ msg' = "none"
  /\ conn' = "none"
  /\ close_msgs' = 0
  /\ task_queue' = <<>>
  /\ task_id' = 0
  /\ ret' = "None"
  /\ errs' = {}
  /\ writes' = 0
  /\ enqueued' = <<>>
  /\ dequeued' = <<>>
  /\ report' = NoReport

(* A stop of the process is counted; there are at most MaxStops of them. *)
CountedStop ==
  /\ stops < MaxStops
  /\ stops' = stops + 1
  /\ UNCHANGED driver

(* A new TaskManager is constructed. *)
Construct ==
  \E okConnect \in BOOLEAN, okList \in BOOLEAN :
    TaskManager_init(okConnect, okList) /\ SameEnvironment

(* A call of process_next_task moves on. *)
ProcessStep ==
  \/ process_next_task_empty /\ SameEnvironment
  \/ \E okGet \in BOOLEAN, okMark \in BOOLEAN :
       process_next_task_begin(okGet, okMark) /\ SameEnvironment
  \/ \E success \in BOOLEAN, okResolve \in BOOLEAN :
       process_next_task_finish(success, okResolve) /\ SameEnvironment

NextLive ==
  \/ \E okConnect \in BOOLEAN, okList \in BOOLEAN :
       TaskManager_init(okConnect, okList) /\ SameEnvironment
  \/ \E now \in Timestamps, ok \in BOOLEAN :
       Cardinality(db) < MaxTasks /\ TaskManager_add_task("UserA", "report", now, ok)
       /\ SameEnvironment
  \/ process_next_task_empty /\ SameEnvironment
  \/ \E okGet \in BOOLEAN, okMark \in BOOLEAN :
       process_next_task_begin(okGet, okMark) /\ SameEnvironment
  \/ \E success \in BOOLEAN, okResolve \in BOOLEAN :
       process_next_task_finish(success, okResolve) /\ SameEnvironment
  \/ Shutdown /\ CountedStop
  \/ Crash /\ CountedStop
  \/ CrashIdle /\ CountedStop
  \/ \E now \in Timestamps :
       Cardinality(db) < MaxTasks /\ CrashInAddTask("UserA", "report", now) /\ CountedStop

(* After a stop the program is started again, and a running program calls   *)
(* process_next_task again and again; a call that has started returns       *)
(* unless the process is stopped.                                           *)
SpecLive == Init /\ [][NextLive]_vars /\ WF_vars(Construct) /\ WF_vars(ProcessStep)

----------------------------------------------------------------------------
(* Properties *)

QueuedIds == {task_queue[i] : i \in 1..Len(task_queue)}

(* A step that is a call of process_next_task from between calls. *)
ProcessCall ==
  \/ process_next_task_empty
  \/ \E okGet \in BOOLEAN, okMark \in BOOLEAN : process_next_task_begin(okGet, okMark)

LegalChange(old, new) ==
  \/ old = new
  \/ old = Pending /\ new = InProgress
  \/ old = InProgress /\ new \in {Done, Failed}

(* C1: in every step of a call in which no Store statement has raised       *)
(* (construction, re-construction after a shutdown or a crash, add_task,    *)
(* process_next_task), every row stays in the table and its status either   *)
(* stays or goes Pending -> InProgress, InProgress -> Done or               *)
(* InProgress -> Failed; so a Done or Failed status never changes.          *)
C1_LegalTransitions ==
  [][errs' = {} =>
       \A r \in db : \E q \in db' : q.id = r.id /\ LegalChange(r.status, q.status)]_vars

(* C1 witness: a second TaskManager (its queue started at task 2, task 1    *)
(* being Done already) has taken task 2 to Failed with no statement raising.*)
C1_Witness ==
  /\ pc = "idle" /\ errs = {} /\ ret = ReturnProcessed
  /\ task_id = 2 /\ enqueued # <<>> /\ enqueued[1] = 2
  /\ \E r \in db : r.id = 1 /\ r.status = Done
  /\ \E r \in db : r.id = 2 /\ r.status = Failed

(* C2: in every reachable state no id occurs twice in task_queue, and every *)
(* id in task_queue is the id of a row whose status is Pending or           *)
(* InProgress.                                                              *)
C2_QueueDistinctAndActive ==
  /\ \A i, j \in 1..Len(task_queue) : i # j => task_queue[i] # task_queue[j]
  /\ \A i \in 1..Len(task_queue) :
       \E r \in db : r.id = task_queue[i] /\ r.status \in {Pending, InProgress}

(* C2 witness: a queue of two ids, one of them InProgress (re-admitted      *)
(* after a crash), beside a Done row that is not queued.                    *)
C2_Witness ==
  /\ Len(task_queue) = 2
  /\ \E r \in db : r.id \in QueuedIds /\ r.status = InProgress
  /\ \E r \in db : r.id \notin QueuedIds /\ r.status = Done

(* C3: between calls, the length of task_queue equals the number of rows    *)
(* whose status is Pending or InProgress.                                   *)
C3_QueueLengthMatches ==
  pc = "idle" =>
    Len(task_queue) = Cardinality({r \in db : r.status \in {Pending, InProgress}})

(* C4: strict FIFO: the ids popped since construction are, in order, the    *)
(* first of the ids enqueued since construction (by the load or by          *)
(* add_task); so of two ids, the one enqueued first is dequeued first.      *)
C4_StrictFIFO ==
  /\ Len(dequeued) <= Len(enqueued)
  /\ \A i \in 1..Len(dequeued) : dequeued[i] = enqueued[i]

(* C4 witness: two ids were dequeued with a later one still waiting. *)
C4_Witness ==
  /\ Len(dequeued) = 2 /\ Len(enqueued) = 3
  /\ task_queue # <<>>
  /\ dequeued[1] # dequeued[2]

(* C5: whenever process_next_task has returned True for a task, the row of  *)
(* that task is Done or Failed, also when an update_task_status raised.     *)
C5_ProcessedIsTerminal ==
  (pc = "idle" /\ ret = ReturnProcessed) =>
    \E r \in db : r.id = task_id /\ r.status \in {Done, Failed}

C7_EmptyQueueNoEffect ==
  [][(pc = "idle" /\ task_queue = <<>> /\ ProcessCall) =>
       (ret' = "False" /\ pc' = "idle" /\ writes' = 0
        /\ db' = db /\ task_queue' = <<>>)]_vars

(* C7 witness: process_next_task has returned 'empty' over a table that     *)
(* holds rows.                                                              *)
C7_Witness ==
  /\ pc = "idle" /\ msg = "empty" /\ ret = ReturnEmpty
  /\ task_queue = <<>> /\ db # {}

(* The body of C8: a process_next_task whose lookup of the popped head      *)
(* gives None returns notFoundValue without raising, issues no write,       *)
(* leaves the table unchanged and the queue without its head, the rest in   *)
(* order; and the call of process_next_task after it takes the next id.     *)
NotFoundBehaviour(valueOK(_)) ==
  /\ \A okGet \in BOOLEAN, okMark \in BOOLEAN :
       (/\ process_next_task_begin(okGet, okMark)
        /\ DBManager_get_task_by_id(db, Head(task_queue), okGet) = <<>>)
       => (/\ valueOK(ret') /\ ret' # "Error" /\ pc' = "idle"
           /\ writes' = 0 /\ db' = db
           /\ task_queue' = Tail(task_queue)
           /\ Head(task_queue) \notin {task_queue'[i] : i \in 1..Len(task_queue')})
  /\ (pc = "idle" /\ msg = "not_found" /\ task_queue # <<>> /\ ProcessCall)
       => task_id' = Head(task_queue)

IsEmptyValue(v) == v = ReturnEmpty

IsNotEmptyValue(v) == v # ReturnEmpty

(* C8 (as amended): when the lookup of the popped head gives None,          *)
(* process_next_task returns False, the same value as for the empty queue   *)
(* (only the printed message differs), without raising; it writes nothing,  *)
(* does not put the id back, leaves the remaining entries in order, and the *)
(* following process_next_task takes the next id.                           *)
C8_NotFoundSameValueAsEmpty == [][NotFoundBehaviour(IsEmptyValue)]_vars

(* C8 witness: after a 'not found' for task 1 the next call is processing   *)
(* task 2.                                                                  *)
C8_Witness ==
  /\ pc = "working" /\ msg = "not_found"
  /\ dequeued = <<1, 2>> /\ task_id = 2

(* C8 as stated: the same, with a 'not found' value distinct from the       *)
(* 'empty' value.                                                           *)
C8_NotFoundDistinctFromEmpty == [][NotFoundBehaviour(IsNotEmptyValue)]_vars

C10_AddRoundTrip ==
  [][\A u \in Users, d \in Descriptions, now \in Timestamps :
       TaskManager_add_task(u, d, now, TRUE) =>
         LET id == task_queue'[Len(task_queue')]
             got == DBManager_get_task_by_id(db', id, TRUE)
         IN /\ task_queue' = Append(task_queue, id)
            /\ id \notin Ids(db)
            /\ got # <<>>
            /\ got[1].id = id /\ got[1].user = u /\ got[1].description = d
            /\ got[1].status = Pending
            /\ db' = db \cup {got[1]}
            /\ Cardinality(db') = Cardinality(db) + 1]_vars

(* C10 witness: an add_task has just succeeded on a table that held a       *)
(* finished row and a queue that held an id.                                *)
C10_Witness ==
  /\ pc = "idle" /\ msg = "added" /\ errs = {}
  /\ Len(task_queue) = 2
  /\ \E r \in db : r.status \in {Done, Failed}

SeqRows(list) == {list[i] : i \in 1..Len(list)}

Terminal(id) == \E r \in db : r.id = id /\ r.status \in {Done, Failed}

C13_CloseIdempotent ==
  [][(Store_close /\ conn = "closed") =>
       (ret' # "Error" /\ conn' = conn /\ db' = db /\ close_msgs' = close_msgs)]_vars

C14_QueueKeptOnFailure ==
  [][ /\ (pc = "idle" /\ ProcessCall /\ errs' # {}) => task_queue' = task_queue
      /\ (pc = "working" /\ pc' = "idle" /\ errs' # {})
           => task_queue' = <<task_id>> \o task_queue ]_vars

(* C15: when the update to InProgress raises, process_next_task issues no   *)
(* further Store write and does not return True.                            *)
C15_FailedMarkAborts ==
  (pc = "idle" /\ "mark" \in errs) => (writes = 1 /\ ret # ReturnProcessed)

StatusOf(rows, id) == (CHOOSE r \in rows : r.id = id).status

(* C16 (as amended): between calls every id in task_queue is Pending or     *)
(* InProgress, and no queued id ever becomes InProgress: process_next_task  *)
(* pops an id before it marks it, so an InProgress id in task_queue is one  *)
(* that the construction of this TaskManager re-admitted (left InProgress   *)
(* by a crash or by a failed final update) and that has been InProgress     *)
(* since; every other queued id is Pending.                                 *)
C16_InProgressOnlyReadmitted ==
  /\ [](pc = "idle" =>
          \A id \in QueuedIds : id \in Ids(db) /\ StatusOf(db, id) \in {Pending, InProgress})
  /\ [][(pc # "down" /\ pc' # "down") =>
          \A id \in {task_queue'[i] : i \in 1..Len(task_queue')} :
            (id \in Ids(db') /\ StatusOf(db', id) = InProgress)
              => (id \in QueuedIds /\ StatusOf(db, id) = InProgress)]_vars

(* C16 witness: between calls the queue holds a re-admitted InProgress id   *)
(* and a Pending id that add_task has just appended.                        *)
C16_Witness ==
  /\ pc = "idle" /\ msg = "added"
  /\ \E id \in QueuedIds : StatusOf(db, id) = InProgress
  /\ \E id \in QueuedIds : StatusOf(db, id) = Pending

(* C16 as stated: between calls every id in task_queue has status Pending.  *)
C16_QueuedArePending ==
  pc = "idle" => \A id \in QueuedIds : id \in Ids(db) /\ StatusOf(db, id) = Pending

(* A step that is a call of one of the read-only methods. *)
ViewCall ==
  \/ display_queue_status
  \/ \E okList \in BOOLEAN : display_all_tasks_status(okList)
  \/ \E okList \in BOOLEAN : generate_report(okList)

(* C17: while a TaskManager lives, an id leaves task_queue only in a        *)
(* process_next_task call, which removes the head and nothing else;         *)
(* add_task keeps the entries in place and in order and appends at most one *)
(* id; display_queue_status, display_all_tasks_status and generate_report   *)
(* leave task_queue as it is.                                               *)
C17_OnlyProcessRemoves ==
  [][ /\ (pc' # "down" /\ \E id \in QueuedIds : id \notin {task_queue'[i] : i \in 1..Len(task_queue')})
           => (ProcessCall /\ task_queue' = Tail(task_queue))
      /\ (pc = "idle" /\ ProcessCall)
           => (task_queue' = task_queue \/ (task_queue # <<>> /\ task_queue' = Tail(task_queue)))
      /\ (\E u \in Users, d \in Descriptions, now \in Timestamps, ok \in BOOLEAN :
            TaskManager_add_task(u, d, now, ok))
           => (\/ task_queue' = task_queue
               \/ \E id \in Ids(db') : task_queue' = Append(task_queue, id))
      /\ ViewCall => task_queue' = task_queue ]_vars

(* C17 witness: the queue has been printed while it held two ids, after a   *)
(* call of process_next_task had removed one.                               *)
C17_Witness ==
  /\ pc = "idle" /\ msg = "queue_status"
  /\ Len(task_queue) = 2 /\ Len(dequeued) = 1

(* C19: every id in task_queue is the id of a row, rows are never deleted,  *)
(* and a process_next_task whose lookup does not raise finds the row of the *)
(* id it popped: it goes on to mark it and never takes the 'not found'      *)
(* branch.                                                                  *)
C19_QueuedIdsExist ==
  /\ [](\A id \in QueuedIds : id \in Ids(db))
  /\ [][Ids(db) \subseteq Ids(db')]_vars
  /\ [][\A okMark \in BOOLEAN :
          process_next_task_begin(TRUE, okMark) => pc' = "working"]_vars

(* C19 witness: the first call after a re-construction found the row of an  *)
(* id that the load had put in the queue.                                   *)
C19_Witness ==
  /\ pc = "working" /\ msg = "loaded" /\ errs = {}
  /\ task_id = 2 /\ task_queue = <<3>>

(* C20: under finitely many stops of the process (at the end of the program,*)
(* between the INSERT and the append of add_task, after popleft, during the *)
(* sleep between the two UPDATEs), with a new TaskManager constructed after *)
(* each stop and process_next_task called again and again, every row of the *)
(* table eventually has status Done or Failed.                              *)
C20_NoTaskLost ==
  \A id \in 1..MaxTasks : (id \in Ids(db)) ~> Terminal(id)

(* A state of C20's case: after a stop during the sleep the new TaskManager *)
(* took up task 1 again and its final UPDATE raised; the row is InProgress, *)
(* the queue is empty and no call is in flight.                             *)
C20_Stranded ==
  /\ stops > 0
  /\ pc = "idle"
  /\ task_queue = <<>>
  /\ "resolve" \in errs
  /\ \E r \in db : r.id = 1 /\ r.status = InProgress

====
